---- MODULE Spec2Model ----
(***************************************************************************)
(* Model of python/tk_flame_export_no_ui/export_preset.py: the ExportPreset *)
(* wrapper around one plate_presets record and the ExportPresetHandler that *)
(* indexes them.                                                            *)
(*                                                                         *)
(* Python strings are sequences of one-character strings, so that           *)
(* str.replace, os.path.splitext, cgi.escape and str.lstrip are computed    *)
(* character by character as the interpreter computes them.                 *)
(***************************************************************************)
EXTENDS Integers, Sequences, FiniteSets, TLC

VARIABLES
    pc,                       \* position of the modelled session
    shot_parent_entity_type,  \* app setting "shot_parent_entity_type"
    template_def,             \* template_defs[t] on entry to the loop body
    flame_def,                \* template_defs[t] after the loop body
    flame_def2,               \* the loop body applied to its own output
    plate_presets,            \* app setting "plate_presets" (raw_preset_data)
    _export_presets,          \* ExportPresetHandler._export_presets
    _raw_preset,              \* ExportPreset._raw_preset of the preset under call
    call,                     \* the last call: operation, arguments, outcome, host calls
    first_quicktime,          \* the first quicktime_path_from_render_path call
    app_templates,            \* definitions of the app's batch and clip templates
    files,                    \* the folders and the files on disk, by path
    returned                  \* history: the get_xml_path calls that returned, in
                              \* order, the latest of each preset

varsTranslate == <<shot_parent_entity_type, template_def, flame_def, flame_def2>>
varsHandler == <<plate_presets, _export_presets>>
varsPreset == <<_raw_preset, first_quicktime>>
varsXml == <<app_templates, files, returned>>
vars == <<pc, varsTranslate, varsHandler, varsPreset, varsXml, call>>

\* The value Python's None, and the marker of a variable not yet assigned.
None == "None"

\* None where a value is otherwise a sequence of characters.
NoneChars == <<None>>

\* The call record before any call.
NoCall == [op |-> "none"]

----------------------------------------------------------------------------
(* Python string primitives *)

\* s[i:i+len(old)] == old
MatchAt(s, i, old) ==
    /\ i + Len(old) - 1 <= Len(s)
    /\ \A k \in 1..Len(old) : s[i + k - 1] = old[k]

\* s.find(old, i): the first position at or after i where old occurs, 0 if none.
Find(s, i, old) ==
    LET hits == {j \in i..Len(s) : MatchAt(s, j, old)}
    IN  IF hits = {} THEN 0 ELSE CHOOSE j \in hits : \A h \in hits : j <= h

RECURSIVE ReplaceFrom(_, _, _, _)
ReplaceFrom(s, i, old, new) ==
    LET j == Find(s, i, old)
    IN  IF j = 0 THEN SubSeq(s, i, Len(s))
        ELSE SubSeq(s, i, j - 1) \o new \o ReplaceFrom(s, j + Len(old), old, new)

\* The bug "only the first occurrence is replaced" (str.replace(old, new, 1)).
ReplaceFirst(s, old, new) ==
    LET j == Find(s, 1, old)
    IN  IF j = 0 THEN s
        ELSE SubSeq(s, 1, j - 1) \o new \o SubSeq(s, j + Len(old), Len(s))

\* str.replace(old, new) for a non-empty old: every non-overlapping
\* occurrence, found scanning from the left, is replaced.
Replace(s, old, new) ==
    IF s = <<>> THEN <<>> ELSE ReplaceFrom(s, 1, old, new)

\* str.rfind(c) for a one-character c, 1-based; 0 when c does not occur
\* (Python: 0-based, -1 when absent).
RFind(s, c) ==
    LET hits == {i \in 1..Len(s) : s[i] = c}
    IN  IF hits = {} THEN 0 ELSE CHOOSE i \in hits : \A j \in hits : j <= i

\* The bug "split at the first dot, not the last".
SplitextAtFirstDot(p) ==
    LET dots == {i \in 1..Len(p) : p[i] = "."}
        d == IF dots = {} THEN 0 ELSE CHOOSE i \in dots : \A j \in dots : i <= j
    IN  IF d > 1 THEN <<SubSeq(p, 1, d - 1), SubSeq(p, d, Len(p))>> ELSE <<p, <<>>>>

\* os.path.splitext(p) on POSIX (genericpath._splitext with sep "/" and
\* extsep "."): the extension starts at the last dot of the last path
\* component, unless only dots precede it in that component.
Splitext(p) ==
    LET sepIndex == RFind(p, "/")
        dotIndex == RFind(p, ".")
    IN  IF /\ dotIndex > sepIndex
           /\ \E f \in (sepIndex + 1)..(dotIndex - 1) : p[f] # "."
        THEN <<SubSeq(p, 1, dotIndex - 1), SubSeq(p, dotIndex, Len(p))>>
        ELSE <<p, <<>>>>

----------------------------------------------------------------------------
(* ExportPreset.__resolve_flame_templates: the body of the loop over the    *)
(* template definitions                                                     *)

Braced(name) == <<"{">> \o name \o <<"}">>

\* The ordered substitution table of the loop body.
Substitutions(parent) == <<
    <<Braced(parent),     <<"<","n","a","m","e",">">>>>,
    <<<<"{","S","h","o","t","}">>,         <<"<","s","h","o","t"," ","n","a","m","e",">">>>>,
    <<<<"{","s","e","g","m","e","n","t","_","n","a","m","e","}">>, <<"<","s","e","g","m","e","n","t"," ","n","a","m","e",">">>>>,
    <<<<"{","v","e","r","s","i","o","n","}">>,      <<"<","v","e","r","s","i","o","n",">">>>>,
    <<<<"{","S","E","Q","}">>,          <<"<","f","r","a","m","e",">">>>>,
    <<<<"{","Y","Y","Y","Y","}">>,         <<"<","Y","Y","Y","Y",">">>>>,
    <<<<"{","M","M","}">>,           <<"<","M","M",">">>>>,
    <<<<"{","D","D","}">>,           <<"<","D","D",">">>>>,
    <<<<"{","h","h","}">>,           <<"<","h","h",">">>>>,
    <<<<"{","m","m","}">>,           <<"<","m","m",">">>>>,
    <<<<"{","s","s","}">>,           <<"<","s","s",">">>>>,
    <<<<"{","w","i","d","t","h","}">>,        <<"<","w","i","d","t","h",">">>>>,
    <<<<"{","h","e","i","g","h","t","}">>,       <<"<","h","e","i","g","h","t",">">>>> >>

RECURSIVE ApplySubstitutions(_, _, _)
ApplySubstitutions(s, table, k) ==
    IF s = <<>> \/ k > Len(table) THEN s
    ELSE ApplySubstitutions(Replace(s, table[k][1], table[k][2]), table, k + 1)

RECURSIVE ApplyFirstOnly(_, _, _)
ApplyFirstOnly(s, table, k) ==
    IF s = <<>> \/ k > Len(table) THEN s
    ELSE ApplyFirstOnly(ReplaceFirst(s, table[k][1], table[k][2]), table, k + 1)

\* Mutant of SubstituteTokens: each token is replaced at its first occurrence only.
SubstituteTokensFirstOnly(s, parent) == ApplyFirstOnly(s, Substitutions(parent), 1)

\* The thirteen str.replace calls, in source order.
SubstituteTokens(s, parent) == ApplySubstitutions(s, Substitutions(parent), 1)

EXT == <<"<","e","x","t",">">>

\* Mutant of CarryOverExt: the extension is cut at the first dot.
CarryOverExtFirstDot(s) == SplitextAtFirstDot(s)[1] \o EXT

\* (head, _) = os.path.splitext(def); def = "%s<ext>" % head
CarryOverExt(s) == Splitext(s)[1] \o EXT

\* One pass of the loop body over one template definition.
ResolveFlameTemplate(s, parent) == CarryOverExt(SubstituteTokens(s, parent))

----------------------------------------------------------------------------
(* Template definitions the translation is run on *)

\* Longest definition assembled from Pieces, counted in pieces.
MaxPieces == 3

\* "shot_parent_entity_type": {Sequence} "may be {Scene} or {CustomEntityXX}".
ParentEntityTypes == {<<"S","e","q","u","e","n","c","e">>, <<"S","c","e","n","e">>}

\* Fragments of template definitions: whole tokens, the two halves of a
\* token, the two separators os.path.splitext looks for, and plain text.
Pieces == <<<<"{","S","h","o","t","}">>, <<"{","S","E","Q","}">>, <<"{","S","e","q","u","e","n","c","e","}">>, <<"{","S">>, <<"E","Q","}">>, <<".">>, <<"/">>, <<"v">>>>

RECURSIVE Concat(_, _)
Concat(ix, k) ==
    IF k > Len(ix) THEN <<>> ELSE Pieces[ix[k]] \o Concat(ix, k + 1)

AssembledDefs ==
    {Concat(ix, 1) : ix \in UNION {[1..n -> 1..Len(Pieces)] : n \in 0..MaxPieces}}

\* The four definitions quoted in the comment of __resolve_flame_templates.
PlateDef == <<"s","e","q","u","e","n","c","e","s","/","{","S","e","q","u","e","n","c","e","}","/","{","S","h","o","t","}","/","e","d","i","t","o","r","i","a","l","/","p","l","a","t","e","s","/","{","s","e","g","m","e","n","t","_","n","a","m","e","}","_","{","S","h","o","t","}",".","v","{","v","e","r","s","i","o","n","}",".","{","S","E","Q","}",".","d","p","x">>
BatchDef == <<"s","e","q","u","e","n","c","e","s","/","{","S","e","q","u","e","n","c","e","}","/","{","S","h","o","t","}","/","e","d","i","t","o","r","i","a","l","/","f","l","a","m","e","/","b","a","t","c","h","/","{","S","h","o","t","}",".","v","{","v","e","r","s","i","o","n","}",".","b","a","t","c","h">>
SegmentClipDef == <<"s","e","q","u","e","n","c","e","s","/","{","S","e","q","u","e","n","c","e","}","/","{","S","h","o","t","}","/","e","d","i","t","o","r","i","a","l","/","f","l","a","m","e","/","s","o","u","r","c","e","s","/","{","s","e","g","m","e","n","t","_","n","a","m","e","}",".","c","l","i","p">>
ShotClipDef == <<"s","e","q","u","e","n","c","e","s","/","{","S","e","q","u","e","n","c","e","}","/","{","S","h","o","t","}","/","e","d","i","t","o","r","i","a","l","/","f","l","a","m","e","/","{","S","h","o","t","}",".","c","l","i","p">>
\* A definition using every date, time and dimension token.
DatedDef == <<"{","Y","Y","Y","Y","}","{","M","M","}","{","D","D","}","/","{","h","h","}","{","m","m","}","{","s","s","}","/","{","w","i","d","t","h","}","x","{","h","e","i","g","h","t","}",".","{","S","E","Q","}",".","e","x","r">>

QuotedDefs == {PlateDef, BatchDef, SegmentClipDef, ShotClipDef, DatedDef}

TemplateDefs == AssembledDefs \cup QuotedDefs

----------------------------------------------------------------------------
(* The translation run on one definition, and once more on its own output *)

InitTranslate ==
    /\ pc = "toolkit"
    /\ shot_parent_entity_type \in ParentEntityTypes
    /\ template_def \in TemplateDefs
    /\ flame_def = None
    /\ flame_def2 = None
    /\ plate_presets = <<>>
    /\ _export_presets = <<>>
    /\ _raw_preset = None
    /\ call = NoCall
    /\ first_quicktime = NoCall
    /\ app_templates = None
    /\ files = None
    /\ returned = None

\* self._app.log_debug("Toolkit: ...") ... self._app.log_debug("Flame: ...")
ResolveTemplate ==
    /\ pc = "toolkit"
    /\ flame_def' = ResolveFlameTemplate(template_def, shot_parent_entity_type)
    /\ pc' = "flame"
    /\ UNCHANGED <<shot_parent_entity_type, template_def, flame_def2, varsHandler, varsPreset, varsXml, call>>

\* The same loop body given the Flame definition it produced.
ResolveAgain ==
    /\ pc = "flame"
    /\ flame_def2' = ResolveFlameTemplate(flame_def, shot_parent_entity_type)
    /\ pc' = "flame2"
    /\ UNCHANGED <<shot_parent_entity_type, template_def, flame_def, varsHandler, varsPreset, varsXml, call>>

NextTranslate == ResolveTemplate \/ ResolveAgain

SpecTranslate == InitTranslate /\ [][NextTranslate]_vars

----------------------------------------------------------------------------
(* Claims about the translation *)

\* C1 as stated: the translation of one template definition is idempotent,
\* translating the Flame definition again gives the same Flame definition.
C1_TranslationIdempotent ==
    pc = "flame2" => flame_def2 = flame_def

\* C1 as amended: on its own output the translation substitutes no token; it
\* only cuts the extension again and appends another "<ext>", so that the
\* second result always differs from the first.
C1_SecondPassOnlyRecutsExtension ==
    pc = "flame2" =>
        /\ SubstituteTokens(flame_def, shot_parent_entity_type) = flame_def
        /\ flame_def2 = Splitext(flame_def)[1] \o EXT
        /\ flame_def2 # flame_def

C1_Witness ==
    /\ pc = "flame2"
    /\ template_def = PlateDef
    /\ flame_def2 # flame_def

\* What the claim's wording promises, stated without str.replace: the tokens
\* and their Flame spellings.
TokenTable(parent) ==
    {<<Braced(parent), <<"<","n","a","m","e",">">>>>} \cup
    { <<<<"{","S","h","o","t","}">>, <<"<","s","h","o","t"," ","n","a","m","e",">">>>>, <<<<"{","s","e","g","m","e","n","t","_","n","a","m","e","}">>, <<"<","s","e","g","m","e","n","t"," ","n","a","m","e",">">>>>,
      <<<<"{","v","e","r","s","i","o","n","}">>, <<"<","v","e","r","s","i","o","n",">">>>>, <<<<"{","S","E","Q","}">>, <<"<","f","r","a","m","e",">">>>>,
      <<<<"{","Y","Y","Y","Y","}">>, <<"<","Y","Y","Y","Y",">">>>>, <<<<"{","M","M","}">>, <<"<","M","M",">">>>>, <<<<"{","D","D","}">>, <<"<","D","D",">">>>>,
      <<<<"{","h","h","}">>, <<"<","h","h",">">>>>, <<<<"{","m","m","}">>, <<"<","m","m",">">>>>, <<<<"{","s","s","}">>, <<"<","s","s",">">>>>,
      <<<<"{","w","i","d","t","h","}">>, <<"<","w","i","d","t","h",">">>>>, <<<<"{","h","e","i","g","h","t","}">>, <<"<","h","e","i","g","h","t",">">>>> }

\* Positions of s where a token of the table starts.
TokenStarts(s, table) == {i \in 1..Len(s) : \E e \in table : MatchAt(s, i, e[1])}

\* t is s with every token occurrence replaced and all other text kept:
\* reading s from a and t from b.
RECURSIVE EveryTokenReplaced(_, _, _, _, _)
EveryTokenReplaced(s, a, t, b, table) ==
    LET starts == {i \in TokenStarts(s, table) : i >= a}
    IN  IF starts = {}
        THEN SubSeq(s, a, Len(s)) = SubSeq(t, b, Len(t))
        ELSE LET i == CHOOSE x \in starts : \A y \in starts : x <= y
                 e == CHOOSE x \in table : MatchAt(s, i, x[1])
             IN  /\ SubSeq(s, a, i - 1) = SubSeq(t, b, b + (i - a) - 1)
                 /\ MatchAt(t, b + (i - a), e[2])
                 /\ EveryTokenReplaced(s, i + Len(e[1]), t, b + (i - a) + Len(e[2]), table)

\* ext is the file-extension suffix of a path ending in head \o ext: a dot
\* followed by neither dot nor slash, after a file name that is not all dots.
IsExtension(head, ext) ==
    /\ ext # <<>>
    /\ ext[1] = "."
    /\ \A k \in 2..Len(ext) : ext[k] \notin {".", "/"}
    /\ \E k \in 1..Len(head) :
          /\ head[k] \notin {".", "/"}
          /\ \A m \in k..Len(head) : head[m] # "/"

\* flame is sub with its file-extension suffix, if it has one, replaced by "<ext>".
ExtensionReplaced(sub, flame) ==
    \E k \in 0..Len(sub) :
        LET head == SubSeq(sub, 1, k)
            ext == SubSeq(sub, k + 1, Len(sub))
        IN  /\ flame = head \o EXT
            /\ \/ IsExtension(head, ext)
               \/ /\ ext = <<>>
                  /\ \A j \in 0..Len(sub) :
                        ~IsExtension(SubSeq(sub, 1, j), SubSeq(sub, j + 1, Len(sub)))

PlateFlameDef == <<"s","e","q","u","e","n","c","e","s","/","<","n","a","m","e",">","/","<","s","h","o","t"," ","n","a","m","e",">","/","e","d","i","t","o","r","i","a","l","/","p","l","a","t","e","s","/","<","s","e","g","m","e","n","t"," ","n","a","m","e",">","_","<","s","h","o","t"," ","n","a","m","e",">",".","v","<","v","e","r","s","i","o","n",">",".","<","f","r","a","m","e",">","<","e","x","t",">">>

\* C2: the Flame definition is the Toolkit definition with every token
\* replaced by its Flame spelling, all other text unchanged, and then the
\* file-extension suffix replaced by "<ext>"; the plate definition of the
\* example, with parent entity Sequence, becomes the quoted Flame definition.
C2_TranslationTable ==
    pc \in {"flame", "flame2"} =>
        /\ \E sub \in {SubstituteTokens(template_def, shot_parent_entity_type)} :
              /\ EveryTokenReplaced(template_def, 1, sub, 1, TokenTable(shot_parent_entity_type))
              /\ TokenStarts(sub, TokenTable(shot_parent_entity_type)) = {}
              /\ ExtensionReplaced(sub, flame_def)
        /\ (template_def = PlateDef /\ shot_parent_entity_type = <<"S","e","q","u","e","n","c","e">>)
              => flame_def = PlateFlameDef

C2_Witness ==
    /\ pc = "flame"
    /\ template_def = PlateDef
    /\ shot_parent_entity_type = <<"S","e","q","u","e","n","c","e">>
    /\ flame_def = PlateFlameDef

----------------------------------------------------------------------------
(* The host: sgtk templates as the calls of export_preset.py use them *)

Return(v) == [kind |-> "return", value |-> v]
Raise(e, a) == [kind |-> "raise", exc |-> e, arg |-> a]

\* The template registry behind self._app.get_template_by_name: each template
\* has its definition and its keys, a key having a format_spec.
Templates ==
    [ render_a |->
        [definition |-> PlateDef,
         keys |-> [Sequence |-> NoneChars, Shot |-> NoneChars, segment_name |-> NoneChars,
                   version |-> <<"0","3">>, SEQ |-> <<"0","4">>]],
      \* a second name for the same pattern: both validate the same paths
      render_a2 |->
        [definition |-> PlateDef,
         keys |-> [Sequence |-> NoneChars, Shot |-> NoneChars, segment_name |-> NoneChars,
                   version |-> <<"0","3">>, SEQ |-> <<"0","4">>]],
      \* a pattern without a segment_name key
      render_b |->
        [definition |-> <<"s","h","o","t","s","/","{","S","h","o","t","}","/","v","{","v","e","r","s","i","o","n","}","/","{","S","h","o","t","}",".","{","S","E","Q","}",".","e","x","r">>,
         keys |-> [Shot |-> NoneChars, version |-> <<"0","4">>, SEQ |-> <<"0","8">>]],
      qt_a |->
        [definition |-> <<"s","e","q","u","e","n","c","e","s","/","{","S","e","q","u","e","n","c","e","}","/","{","S","h","o","t","}","/","e","d","i","t","o","r","i","a","l","/","{","s","e","g","m","e","n","t","_","n","a","m","e","}","_","{","S","h","o","t","}",".","v","{","v","e","r","s","i","o","n","}",".","m","o","v">>,
         keys |-> [Sequence |-> NoneChars, Shot |-> NoneChars, segment_name |-> NoneChars,
                   version |-> <<"0","3">>]],
      \* a quicktime pattern with a key no render pattern has
      qt_w |->
        [definition |-> <<"r","e","v","i","e","w","/","{","S","h","o","t","}","_","{","w","i","d","t","h","}",".","m","o","v">>,
         keys |-> [Shot |-> NoneChars, width |-> NoneChars]],
      \* render templates of the presets export documents are generated for:
      \* short definitions, and format specs of several widths
      plate_3_4 |->
        [definition |-> <<"{","S","h","o","t","}",".","v","{","v","e","r","s","i","o","n","}",".","{","S","E","Q","}",".","d","p","x">>,
         keys |-> [Shot |-> NoneChars, version |-> <<"0","3">>, SEQ |-> <<"0","4">>]],
      plate_zero |->
        [definition |-> <<"{","S","h","o","t","}","_","v","{","v","e","r","s","i","o","n","}",".","{","S","E","Q","}",".","e","x","r">>,
         keys |-> [Shot |-> NoneChars, version |-> <<"0">>, SEQ |-> <<"0","0">>]],
      plate_wide |->
        [definition |-> <<"{","S","h","o","t","}","/","{","v","e","r","s","i","o","n","}","/","{","S","E","Q","}",".","j","p","g">>,
         keys |-> [Shot |-> NoneChars, version |-> <<"4","0">>, SEQ |-> <<"0","0","4">>]],
      \* a render template without a version key
      plate_noversion |->
        [definition |-> <<"{","S","h","o","t","}",".","{","S","E","Q","}",".","d","p","x">>,
         keys |-> [Shot |-> NoneChars, SEQ |-> <<"0","4">>]],
      \* a render template without a SEQ key
      plate_noseq |->
        [definition |-> <<"{","S","h","o","t","}",".","v","{","v","e","r","s","i","o","n","}",".","m","o","v">>,
         keys |-> [Shot |-> NoneChars, version |-> <<"0","3">>]] ]

\* self._app.get_template_by_name(name): the template object, here its
\* registry name; None for a name that is not registered.
get_template_by_name(name) ==
    IF name \in DOMAIN Templates THEN name ELSE None

\* The values a path can carry for a key.
FieldValues ==
    [ Sequence |-> {<<"s","q","1">>},
      Shot |-> {<<"s","h","1">>, <<"s","h","2">>},
      segment_name |-> {<<"s","e","g","A">>, <<"s","e","g","B">>},
      version |-> {<<"0","0","1">>},
      SEQ |-> {<<"0","1","0","0">>},
      width |-> {<<"1","9","2","0">>} ]

AllFieldValues == UNION {FieldValues[k] : k \in DOMAIN FieldValues}

\* A path is what a pattern and field values make of it: the paths of a
\* template are its definition with a value for each of its keys.
PathsOf(t) ==
    { [definition |-> Templates[t].definition, fields |-> f] :
        f \in { g \in [DOMAIN Templates[t].keys -> AllFieldValues] :
                  \A k \in DOMAIN g : g[k] \in FieldValues[k] } }

\* A path no template validates.
StrayPath == [definition |-> <<"/","t","m","p","/","s","t","r","a","y",".","d","p","x">>, fields |-> <<>>]

Paths == PathsOf("render_a") \cup PathsOf("render_b") \cup PathsOf("qt_a") \cup {StrayPath}

\* template.validate(path)
validate(t, path) ==
    /\ path.definition = Templates[t].definition
    /\ DOMAIN path.fields = DOMAIN Templates[t].keys

\* template.get_fields(path): raises TankError for a path that does not validate.
get_fields(t, path) ==
    IF validate(t, path) THEN Return(path.fields) ELSE Raise("TankError", "get_fields")

\* template.apply_fields(fields): raises TankError when a key has no value.
apply_fields(t, fields) ==
    IF DOMAIN Templates[t].keys \subseteq DOMAIN fields
    THEN Return([definition |-> Templates[t].definition,
                 fields |-> [k \in DOMAIN Templates[t].keys |-> fields[k]]])
    ELSE Raise("TankError", "apply_fields")

----------------------------------------------------------------------------
(* ExportPreset *)

\* The plate_presets records of the configuration. The primary template is
\* always named and registered; the quicktime template is named, empty,
\* null or left out.
RawPresets ==
    { [name |-> "dpx", template |-> "render_a", quicktime_template |-> "qt_a"],
      [name |-> "dpx", template |-> "render_b", quicktime_template |-> ""],
      [name |-> "exr", template |-> "render_a2", quicktime_template |-> None],
      [name |-> "exr", template |-> "render_b"],
      [name |-> "jpg", template |-> "render_a", quicktime_template |-> "qt_w"] }

\* dict[key]: KeyError for a missing key.
GetItem(d, key) ==
    IF key \in DOMAIN d THEN Return(d[key]) ELSE Raise("KeyError", key)

\* dict.get(key) of a dictionary of strings: None for a missing key.
DictGet(d, key) ==
    IF key \in DOMAIN d THEN d[key] ELSE NoneChars

\* "%s" % v
Str(v) == IF v = NoneChars THEN <<"N","o","n","e">> ELSE v

\* Python truth of a configuration string.
Truthy(v) == v \notin {None, ""}

\* ExportPreset.get_name
get_name(raw) == raw["name"]

\* ExportPreset.get_render_template
get_render_template(raw) == get_template_by_name(raw["template"])

\* Mutant of get_publish_name: the two fields in the other order.
get_publish_name_swapped(template, path) ==
    IF template = None \/ ~validate(template, path)
    THEN [out |-> Return(<<"U","n","k","n","o","w","n">>), log |-> <<"validate", "log_warning">>]
    ELSE LET fields == get_fields(template, path).value
         IN  [out |-> Return(Str(DictGet(fields, "segment_name")) \o <<","," ">>
                               \o Str(DictGet(fields, "Shot"))),
              log |-> <<"validate", "get_fields">>]

\* ExportPreset.__get_publish_name: the outcome and the host calls made.
get_publish_name(template, path) ==
    IF template = None
    THEN [out |-> Return(<<"U","n","k","n","o","w","n">>), log |-> <<"log_warning">>]
    ELSE IF ~validate(template, path)
    THEN [out |-> Return(<<"U","n","k","n","o","w","n">>), log |-> <<"validate", "log_warning">>]
    ELSE LET fields == get_fields(template, path).value
         IN  [out |-> Return(Str(DictGet(fields, "Shot")) \o <<","," ">>
                               \o Str(DictGet(fields, "segment_name"))),
              log |-> <<"validate", "get_fields">>]

\* ExportPreset.get_render_publish_name
get_render_publish_name(raw, path) == get_publish_name(get_render_template(raw), path)

\* ExportPreset.get_quicktime_template
get_quicktime_template(raw) ==
    LET quicktime_template_name == GetItem(raw, "quicktime_template")
    IN  IF quicktime_template_name.kind = "raise" THEN quicktime_template_name
        ELSE IF Truthy(quicktime_template_name.value)
        THEN Return(get_template_by_name(quicktime_template_name.value))
        ELSE Return(None)

\* Mutant of make_highres_quicktime: the test the wrong way round.
make_highres_quicktime_inverted(raw) ==
    LET t == get_quicktime_template(raw)
    IN  IF t.kind = "raise" THEN t ELSE Return(t.value = None)

\* ExportPreset.make_highres_quicktime
make_highres_quicktime(raw) ==
    LET t == get_quicktime_template(raw)
    IN  IF t.kind = "raise" THEN t ELSE Return(t.value # None)

\* Mutant of quicktime_path_from_render_path: no check of the quicktime template.
quicktime_path_unchecked(raw, render_path) ==
    LET fields == get_fields(get_render_template(raw), render_path)
        qt == get_quicktime_template(raw)
    IN  IF fields.kind = "raise" THEN [out |-> fields, log |-> <<"get_fields">>]
        ELSE IF qt.kind = "raise" \/ qt.value = None
        THEN [out |-> Raise("AttributeError", "apply_fields"), log |-> <<"get_fields">>]
        ELSE [out |-> apply_fields(qt.value, fields.value),
              log |-> <<"get_fields", "apply_fields">>]

\* ExportPreset.quicktime_path_from_render_path: the outcome and the host
\* calls made on the templates.
quicktime_path_from_render_path(raw, render_path) ==
    LET qt == get_quicktime_template(raw)
    IN  IF qt.kind = "raise" THEN [out |-> qt, log |-> <<>>]
        ELSE IF qt.value = None
        THEN [out |-> Raise("TankError", "no quicktime template"), log |-> <<>>]
        ELSE LET fields == get_fields(get_render_template(raw), render_path)
             IN  IF fields.kind = "raise"
                 THEN [out |-> fields, log |-> <<"get_fields">>]
                 ELSE [out |-> apply_fields(qt.value, fields.value),
                       log |-> <<"get_fields", "apply_fields">>]

----------------------------------------------------------------------------
(* One ExportPreset and the calls made on it *)

\* ExportPreset.__init__
InitPreset ==
    /\ pc = "preset"
    /\ _raw_preset \in RawPresets
    /\ call = NoCall
    /\ first_quicktime = NoCall
    /\ app_templates = None
    /\ files = None
    /\ returned = None
    /\ shot_parent_entity_type = <<"S","e","q","u","e","n","c","e">>
    /\ template_def = None
    /\ flame_def = None
    /\ flame_def2 = None
    /\ plate_presets = <<>>
    /\ _export_presets = <<>>

MakeHighresQuicktime ==
    /\ pc = "preset"
    /\ call' = [op |-> "make_highres_quicktime", args |-> <<>>,
                out |-> make_highres_quicktime(_raw_preset), log |-> <<>>]
    /\ UNCHANGED <<pc, varsTranslate, varsHandler, varsPreset, varsXml>>

GetRenderPublishName ==
    /\ pc = "preset"
    /\ \E path \in Paths :
         LET r == get_render_publish_name(_raw_preset, path)
         IN  call' = [op |-> "get_render_publish_name", args |-> <<path>>,
                      out |-> r.out, log |-> r.log]
    /\ UNCHANGED <<pc, varsTranslate, varsHandler, varsPreset, varsXml>>

QuicktimePathFromRenderPath ==
    /\ pc = "preset"
    /\ \E path \in Paths :
         LET r == quicktime_path_from_render_path(_raw_preset, path)
         IN  /\ call' = [op |-> "quicktime_path_from_render_path", args |-> <<path>>,
                         out |-> r.out, log |-> r.log,
                         repeated |-> (first_quicktime # NoCall /\ first_quicktime.args = <<path>>)]
             /\ first_quicktime' = IF first_quicktime = NoCall THEN call' ELSE first_quicktime
    /\ UNCHANGED <<pc, varsTranslate, varsHandler, _raw_preset, varsXml>>

NextPreset == MakeHighresQuicktime \/ GetRenderPublishName \/ QuicktimePathFromRenderPath

SpecPreset == InitPreset /\ [][NextPreset]_vars

----------------------------------------------------------------------------
(* Claims about one ExportPreset *)

HasQuicktimeKey == "quicktime_template" \in DOMAIN _raw_preset

\* C3 as stated: make_highres_quicktime() is true for a non-empty quicktime
\* template name, and false, without raising, for the empty string and for a
\* record without the quicktime_template key.
C3_HighresOrFalseWithoutRaising ==
    call.op = "make_highres_quicktime" =>
        /\ (HasQuicktimeKey /\ Truthy(_raw_preset.quicktime_template))
              => call.out = Return(TRUE)
        /\ (HasQuicktimeKey /\ _raw_preset.quicktime_template = "")
              => call.out = Return(FALSE)
        /\ ~HasQuicktimeKey => call.out = Return(FALSE)

\* C3 as amended: true for a non-empty (registered) name, false for the
\* empty string and for None; a record without the key raises KeyError.
C3_HighresOrKeyError ==
    call.op = "make_highres_quicktime" =>
        /\ (HasQuicktimeKey /\ Truthy(_raw_preset.quicktime_template))
              => call.out = Return(TRUE)
        /\ (HasQuicktimeKey /\ _raw_preset.quicktime_template \in {"", None})
              => call.out = Return(FALSE)
        /\ ~HasQuicktimeKey => call.out = Raise("KeyError", "quicktime_template")

C3_Witness ==
    /\ call.op = "make_highres_quicktime"
    /\ ~HasQuicktimeKey
    /\ call.out.kind = "raise"

\* The value of a field of a path as "%s" prints it.
Printed(path, key) ==
    IF key \in DOMAIN path.fields THEN path.fields[key] ELSE <<"N","o","n","e">>

\* C4: get_render_publish_name never raises; it returns "Unknown" for a path
\* the render template does not validate and "<Shot>, <segment_name>", from
\* the fields of the path, for a path it validates.
C4_PublishName ==
    call.op = "get_render_publish_name" =>
        LET path == call.args[1]
        IN  /\ call.out.kind = "return"
            /\ call.out.value =
                 IF validate(_raw_preset.template, path)
                 THEN Printed(path, "Shot") \o <<","," ">> \o Printed(path, "segment_name")
                 ELSE <<"U","n","k","n","o","w","n">>

C4_Witness ==
    /\ call.op = "get_render_publish_name"
    /\ validate(_raw_preset.template, call.args[1])
    /\ call.out = Return(<<"s","h","2",","," ","s","e","g","A">>)

\* No secondary template is configured: the name is empty or None.
NoQuicktimeTemplate == HasQuicktimeKey /\ ~Truthy(_raw_preset.quicktime_template)

----------------------------------------------------------------------------
(* ExportPresetHandler *)

\* Longest plate_presets list.
MaxPresets == 2

\* The values of the plate_presets setting.
PresetLists == UNION {[1..n -> RawPresets] : n \in 0..MaxPresets}

\* Names asked for by name: the declared ones and one never declared.
LookupNames == {r.name : r \in RawPresets} \cup {"mov"}

\* ExportPreset(raw_preset)
ExportPreset(raw_preset) == [_raw_preset |-> raw_preset]

\* d[key] = value
SetItem(d, key, value) ==
    [k \in DOMAIN d \cup {key} |-> IF k = key THEN value ELSE d[k]]

\* Mutant of BuildExportPresets: a name already present keeps its preset.
RECURSIVE BuildExportPresetsFirstWins(_, _, _)
BuildExportPresetsFirstWins(raw_preset_data, k, presets) ==
    IF k > Len(raw_preset_data) THEN presets
    ELSE LET raw_preset == raw_preset_data[k]
             preset_name == raw_preset["name"]
         IN  BuildExportPresetsFirstWins(raw_preset_data, k + 1,
                 IF preset_name \in DOMAIN presets THEN presets
                 ELSE SetItem(presets, preset_name, ExportPreset(raw_preset)))

\* The loop of ExportPresetHandler.__init__ from the k-th record on.
RECURSIVE BuildExportPresets(_, _, _)
BuildExportPresets(raw_preset_data, k, presets) ==
    IF k > Len(raw_preset_data) THEN presets
    ELSE LET raw_preset == raw_preset_data[k]
             preset_name == raw_preset["name"]
         IN  BuildExportPresets(raw_preset_data, k + 1,
                 SetItem(presets, preset_name, ExportPreset(raw_preset)))

\* ExportPresetHandler.get_preset_names
get_preset_names(presets) == DOMAIN presets

\* Mutant of get_preset_by_name: no test of the name before the lookup.
get_preset_by_name_unguarded(presets, preset_name) ==
    IF preset_name \notin DOMAIN presets
    THEN Raise("KeyError", preset_name)
    ELSE Return(presets[preset_name])

\* ExportPresetHandler.get_preset_by_name
get_preset_by_name(presets, preset_name) ==
    IF preset_name \notin DOMAIN presets
    THEN Raise("TankError", preset_name)
    ELSE Return(presets[preset_name])

\* None where a value is otherwise an object.
NoneObject == [none |-> TRUE]

\* The orders in which dict.values() may hand out the presets.
ValueOrders(presets) ==
    LET n == Cardinality(DOMAIN presets)
    IN  { [i \in 1..n |-> presets[o[i]]] :
            o \in {f \in [1..n -> DOMAIN presets] : \A i, j \in 1..n : f[i] = f[j] => i = j} }

\* Mutant of ScanPresets: the loop keeps the last preset it looked at.
RECURSIVE ScanPresetsUntested(_, _, _)
ScanPresetsUntested(values, k, path) ==
    IF k > Len(values) THEN NoneObject
    ELSE IF k = Len(values) \/ validate(get_render_template(values[k]._raw_preset), path)
         THEN values[k]
         ELSE ScanPresetsUntested(values, k + 1, path)

\* The loop of get_preset_for_render_path from the k-th value on.
RECURSIVE ScanPresets(_, _, _)
ScanPresets(values, k, path) ==
    IF k > Len(values) THEN NoneObject
    ELSE IF validate(get_render_template(values[k]._raw_preset), path)
         THEN values[k]
         ELSE ScanPresets(values, k + 1, path)

\* ExportPresetHandler.get_preset_for_render_path, for one order of the values
get_preset_for_render_path(values, path) == Return(ScanPresets(values, 1, path))

----------------------------------------------------------------------------
(* The handler: construction, then lookups *)

Init ==
    /\ pc = "new"
    /\ plate_presets \in PresetLists
    /\ _export_presets = <<>>
    /\ call = NoCall
    /\ _raw_preset = None
    /\ first_quicktime = NoCall
    /\ app_templates = None
    /\ files = None
    /\ returned = None
    /\ shot_parent_entity_type = <<"S","e","q","u","e","n","c","e">>
    /\ template_def = None
    /\ flame_def = None
    /\ flame_def2 = None

\* ExportPresetHandler.__init__
HandlerInit ==
    /\ pc = "new"
    /\ _export_presets' = BuildExportPresets(plate_presets, 1, <<>>)
    /\ pc' = "ready"
    /\ UNCHANGED <<plate_presets, call, varsTranslate, varsPreset, varsXml>>

GetPresetNames ==
    /\ pc = "ready"
    /\ call' = [op |-> "get_preset_names", args |-> <<>>,
                out |-> Return(get_preset_names(_export_presets))]
    /\ UNCHANGED <<pc, varsHandler, varsTranslate, varsPreset, varsXml>>

GetPresetByName ==
    /\ pc = "ready"
    /\ \E preset_name \in LookupNames :
         call' = [op |-> "get_preset_by_name", args |-> <<preset_name>>,
                  out |-> get_preset_by_name(_export_presets, preset_name)]
    /\ UNCHANGED <<pc, varsHandler, varsTranslate, varsPreset, varsXml>>

GetPresetForRenderPath ==
    /\ pc = "ready"
    /\ \E path \in Paths, values \in ValueOrders(_export_presets) :
         call' = [op |-> "get_preset_for_render_path", args |-> <<path>>,
                  out |-> get_preset_for_render_path(values, path)]
    /\ UNCHANGED <<pc, varsHandler, varsTranslate, varsPreset, varsXml>>

Next == HandlerInit \/ GetPresetNames \/ GetPresetByName \/ GetPresetForRenderPath

Spec == Init /\ [][Next]_vars

----------------------------------------------------------------------------
(* Claims about the handler *)

\* The presets held whose render template validates the path.
Matching(path) ==
    { p \in {_export_presets[n] : n \in DOMAIN _export_presets} :
        validate(get_render_template(p._raw_preset), path) }

\* C6: get_preset_for_render_path returns None exactly when no held preset's
\* render template validates the path, and otherwise a held preset whose
\* render template validates it.
C6_PresetForRenderPath ==
    call.op = "get_preset_for_render_path" =>
        /\ call.out.kind = "return"
        /\ (call.out.value = NoneObject) <=> (Matching(call.args[1]) = {})
        /\ call.out.value # NoneObject => call.out.value \in Matching(call.args[1])

C6_Witness ==
    /\ call.op = "get_preset_for_render_path"
    /\ Cardinality(Matching(call.args[1])) = 2
    /\ Cardinality(DOMAIN _export_presets) = 2
    /\ call.out.value \in Matching(call.args[1])

\* C7: get_preset_by_name(n) returns a preset named n when n is among
\* get_preset_names(), and raises the error naming n otherwise; neither
\* changes the mapping.
C7_PresetByName ==
    /\ [](call.op = "get_preset_by_name" =>
            LET n == call.args[1]
            IN  IF n \in get_preset_names(_export_presets)
                THEN /\ call.out.kind = "return"
                     /\ get_name(call.out.value._raw_preset) = n
                ELSE call.out = Raise("TankError", n))
    /\ [][call'.op = "get_preset_by_name" => _export_presets' = _export_presets]_vars

C7_Witness ==
    /\ call.op = "get_preset_by_name"
    /\ Cardinality(DOMAIN _export_presets) = 2
    /\ call.out.kind = "return"
    /\ call.args[1] = "exr"

C7_WitnessUnknown ==
    /\ call.op = "get_preset_by_name"
    /\ call.out = Raise("TankError", "mov")

\* The last record of the list that declares the name.
LastDeclaring(n) ==
    plate_presets[CHOOSE i \in 1..Len(plate_presets) :
                    /\ plate_presets[i].name = n
                    /\ \A j \in (i + 1)..Len(plate_presets) : plate_presets[j].name # n]

\* C9: after construction the mapping's keys are the names declared in the
\* list, each key maps to a preset of that name, and a name declared several
\* times maps to the preset of the last record declaring it.
C9_MappingAfterConstruction ==
    pc = "ready" =>
        /\ DOMAIN _export_presets = {plate_presets[i].name : i \in 1..Len(plate_presets)}
        /\ \A n \in DOMAIN _export_presets :
              /\ get_name(_export_presets[n]._raw_preset) = n
              /\ _export_presets[n] = ExportPreset(LastDeclaring(n))

C9_Witness ==
    /\ pc = "ready"
    /\ Len(plate_presets) = 2
    /\ plate_presets[1].name = plate_presets[2].name
    /\ plate_presets[1] # plate_presets[2]
    /\ _export_presets[plate_presets[2].name] = ExportPreset(plate_presets[2])

----------------------------------------------------------------------------
(* ExportPreset.get_xml_path *)

\* cgi.escape(s), quote not set
CgiEscape(s) ==
    Replace(Replace(Replace(s, <<"&">>, <<"&","a","m","p",";">>), <<"<">>, <<"&","l","t",";">>), <<">">>, <<"&","g","t",";">>)

\* Mutant of LStrip: one leading character is dropped at most (s[1:]).
LStripOne(s, c) ==
    IF s # <<>> /\ s[1] = c THEN Tail(s) ELSE s

\* s.lstrip(c) for a one-character c
LStrip(s, c) ==
    LET kept == {i \in 1..Len(s) : s[i] # c}
    IN  IF kept = {} THEN <<>>
        ELSE SubSeq(s, CHOOSE i \in kept : \A j \in kept : i <= j, Len(s))

\* self._app.engine.preset_version
PresetVersion == <<"7">>

\* The literal runs of the scaffold between its placeholders, each kept as
\* one element: they hold no brace, so no placeholder can match inside one.
\* White space between the tags is left out.
ScaffoldHead == "<?xml version=\"1.0\" encoding=\"UTF-8\"?><preset version=\""
ScaffoldSequence == "\"><type>sequence</type><comment>Export profile for the Shotgun Flame export</comment><sequence><fileType>NONE</fileType><namePattern /><includeVideo>True</includeVideo><exportVideo>True</exportVideo><videoMedia><mediaFileType>image</mediaFileType><commit>Original</commit><flatten>NoChange</flatten><exportHandles>True</exportHandles><nbHandles>10</nbHandles></videoMedia><includeAudio>True</includeAudio><exportAudio>False</exportAudio><audioMedia><mediaFileType>audio</mediaFileType><commit>Original</commit><flatten>NoChange</flatten><exportHandles>True</exportHandles><nbHandles>10</nbHandles></audioMedia></sequence>"
ScaffoldFramePaddingOpen == "<name><framePadding>"
ScaffoldFramePaddingClose == "</framePadding><startFrame>100</startFrame><useTimecode>False</useTimecode></name><createOpenClip><namePattern>"
ScaffoldVersionPaddingOpen == "</namePattern><version><index>0</index><padding>"
ScaffoldVersionPaddingClose == "</padding><name>v&lt;version&gt;</name></version><batchSetup><namePattern>"
ScaffoldExportNamePattern == "</namePattern><exportNamePattern>"
ScaffoldTail == "</exportNamePattern></batchSetup></createOpenClip><reImport><namePattern /></reImport></preset>"

\* xml = """...""" % preset_version
Scaffold(preset_version) ==
    <<ScaffoldHead>> \o preset_version \o <<ScaffoldSequence>>
    \o <<"{","V","I","D","E","O","_","E","X","P","O","R","T","_","P","R","E","S","E","T","}">>
    \o <<ScaffoldFramePaddingOpen>> \o <<"{","F","R","A","M","E","_","P","A","D","D","I","N","G","}">> \o <<ScaffoldFramePaddingClose>>
    \o <<"{","S","E","G","M","E","N","T","_","C","L","I","P","_","N","A","M","E","_","P","A","T","T","E","R","N","}">>
    \o <<ScaffoldVersionPaddingOpen>> \o <<"{","V","E","R","S","I","O","N","_","P","A","D","D","I","N","G","}">> \o <<ScaffoldVersionPaddingClose>>
    \o <<"{","B","A","T","C","H","_","N","A","M","E","_","P","A","T","T","E","R","N","}">>
    \o <<ScaffoldExportNamePattern>> \o <<"{","S","H","O","T","_","C","L","I","P","_","N","A","M","E","_","P","A","T","T","E","R","N","}">>
    \o <<ScaffoldTail>>

\* The records of the presets the document is generated for.
XmlRawPresets ==
    { [name |-> "plates", template |-> "plate_3_4", quicktime_template |-> ""],
      [name |-> "zero", template |-> "plate_zero", quicktime_template |-> ""],
      [name |-> "wide", template |-> "plate_wide", quicktime_template |-> ""],
      [name |-> "noversion", template |-> "plate_noversion", quicktime_template |-> ""],
      [name |-> "noseq", template |-> "plate_noseq", quicktime_template |-> ""] }

\* The plate_presets lists of two presets of different names.
XmlPresetLists ==
    { l \in [1..2 -> XmlRawPresets] : l[1] # l[2] }

\* The definitions behind self._app.get_template("batch_template"),
\* "shot_clip_template" and "segment_clip_template": the usual ones, a
\* segment clip template with a key spelled like a placeholder of the
\* scaffold, and a batch template the host does not have (get_template
\* gives None).
AppTemplateChoices ==
    { [batch_template |-> <<"{","S","h","o","t","}",".","v","{","v","e","r","s","i","o","n","}",".","b","a","t","c","h">>,
       shot_clip_template |-> <<"{","S","h","o","t","}",".","c","l","i","p">>,
       segment_clip_template |-> <<"{","s","e","g","m","e","n","t","_","n","a","m","e","}",".","c","l","i","p">>],
      [batch_template |-> <<"{","S","h","o","t","}",".","v","{","v","e","r","s","i","o","n","}",".","b","a","t","c","h">>,
       shot_clip_template |-> <<"{","S","h","o","t","}",".","c","l","i","p">>,
       segment_clip_template |-> <<"{","B","A","T","C","H","_","N","A","M","E","_","P","A","T","T","E","R","N","}",".","c","l","i","p">>],
      [batch_template |-> NoneChars,
       shot_clip_template |-> <<"{","S","h","o","t","}",".","c","l","i","p">>,
       segment_clip_template |-> <<"{","s","e","g","m","e","n","t","_","n","a","m","e","}",".","c","l","i","p">>] }

\* What the settings hook's get_video_preset may do with its arguments.
HookBehaviours == {"name_pattern", "padding_text", "raise"}

\* self._app.execute_hook_method("settings_hook", "get_video_preset", ...)
execute_hook_method(hook, preset_name, name_pattern) ==
    CASE hook = "name_pattern" ->
           Return(<<"<","v","i","d","e","o",">","<","n","a","m","e","P","a","t","t","e","r","n",">">> \o name_pattern \o <<"<","/","n","a","m","e","P","a","t","t","e","r","n",">","<","/","v","i","d","e","o",">">>)
      [] hook = "padding_text" ->
           Return(<<"<","v","i","d","e","o",">","<","c","o","m","m","e","n","t",">","{","F","R","A","M","E","_","P","A","D","D","I","N","G","}","<","/","c","o","m","m","e","n","t",">","<","/","v","i","d","e","o",">">>)
      [] hook = "raise" -> Raise("TankError", "settings_hook")

\* template_defs[...] = self._app.get_template(...).definition: None has no
\* attribute definition.
template_defs(app) ==
    IF \E t \in DOMAIN app : app[t] = NoneChars
    THEN Raise("AttributeError", "definition")
    ELSE Return(app)

\* ExportPreset.__resolve_flame_templates, every template being there
resolve_flame_templates(raw, app, parent) ==
    [plate_template |->
        ResolveFlameTemplate(Templates[get_render_template(raw)].definition, parent),
     batch_template |-> ResolveFlameTemplate(app.batch_template, parent),
     shot_clip_template |-> ResolveFlameTemplate(app.shot_clip_template, parent),
     segment_clip_template |-> ResolveFlameTemplate(app.segment_clip_template, parent)]

\* os.path.join(self._app.cache_location, self._app.instance_name, file_name)
FilePath(file_name) == <<"cache_location", "instance_name", file_name>>

\* os.path.dirname(file_path)
Dirname(file_path) == SubSeq(file_path, 1, Len(file_path) - 1)

\* No file at the path.
NoFile == <<"no file">>

\* The file system before anything is written: no folder, no file.
EmptyDisk == [folders |-> {}, file |-> <<>>]

\* The content of the file at path.
ReadFile(disk, path) ==
    IF path \in DOMAIN disk.file THEN disk.file[path] ELSE NoFile

\* Mutant of write_content_to_file: a file already there is left as it is.
write_content_once(disk, content, file_name) ==
    LET file_path == FilePath(file_name)
    IN  [path |-> file_path,
         files |-> IF file_path \in DOMAIN disk.file THEN disk
                   ELSE [folders |-> disk.folders \cup {Dirname(file_path)},
                         file |-> SetItem(disk.file, file_path, content)]]

\* ExportPreset.__write_content_to_file: the path returned and the file
\* system afterwards.
write_content_to_file(disk, content, file_name) ==
    LET file_path == FilePath(file_name)
        folder == Dirname(file_path)
    IN  [path |-> file_path,
         files |-> [folders |-> IF folder \notin disk.folders
                                THEN disk.folders \cup {folder}
                                ELSE disk.folders,
                    file |-> SetItem(disk.file, file_path, content)]]

\* The substitutions of get_xml_path up to the padding values.
SplicedXml(video_preset_xml, resolved) ==
    LET xml0 == Scaffold(PresetVersion)
        xml1 == Replace(xml0, <<"{","V","I","D","E","O","_","E","X","P","O","R","T","_","P","R","E","S","E","T","}">>, video_preset_xml)
        xml2 == Replace(xml1, <<"{","S","E","G","M","E","N","T","_","C","L","I","P","_","N","A","M","E","_","P","A","T","T","E","R","N","}">>,
                        CgiEscape(resolved.segment_clip_template))
        xml3 == Replace(xml2, <<"{","B","A","T","C","H","_","N","A","M","E","_","P","A","T","T","E","R","N","}">>, CgiEscape(resolved.batch_template))
    IN  Replace(xml3, <<"{","S","H","O","T","_","C","L","I","P","_","N","A","M","E","_","P","A","T","T","E","R","N","}">>, CgiEscape(resolved.shot_clip_template))

\* Mutant of get_xml_path: the document is written before the keys of the
\* render template are looked up.
get_xml_path_written_early(raw, app, parent, hook, disk) ==
    LET defs == template_defs(app)
        resolved == resolve_flame_templates(raw, app, parent)
        video_preset_xml ==
            execute_hook_method(hook, get_name(raw), CgiEscape(resolved.plate_template))
        keys == Templates[get_render_template(raw)].keys
        sequence_key == GetItem(keys, "SEQ")
        version_key == GetItem(keys, "version")
    IN  IF defs.kind = "raise" THEN [out |-> defs, files |-> disk]
        ELSE IF video_preset_xml.kind = "raise" THEN [out |-> video_preset_xml, files |-> disk]
        ELSE LET xml4 == SplicedXml(video_preset_xml.value, resolved)
                 written == write_content_to_file(disk, xml4, "export_preset.xml")
             IN  IF sequence_key.kind = "raise"
                 THEN [out |-> sequence_key, files |-> written.files]
                 ELSE IF version_key.kind = "raise"
                 THEN [out |-> version_key, files |-> written.files]
                 ELSE [out |-> Return(written.path),
                       files |-> write_content_to_file(disk,
                           Replace(Replace(xml4, <<"{","F","R","A","M","E","_","P","A","D","D","I","N","G","}">>,
                                           LStrip(sequence_key.value, "0")),
                                   <<"{","V","E","R","S","I","O","N","_","P","A","D","D","I","N","G","}">>, LStrip(version_key.value, "0")),
                           "export_preset.xml").files]

\* ExportPreset.get_xml_path: the outcome and the file system afterwards.
get_xml_path(raw, app, parent, hook, disk) ==
    LET defs == template_defs(app)
        resolved == resolve_flame_templates(raw, app, parent)
        escaped_video_name_pattern == CgiEscape(resolved.plate_template)
        video_preset_xml ==
            execute_hook_method(hook, get_name(raw), escaped_video_name_pattern)
        keys == Templates[get_render_template(raw)].keys
        sequence_key == GetItem(keys, "SEQ")
        version_key == GetItem(keys, "version")
    IN  IF defs.kind = "raise" THEN [out |-> defs, files |-> disk]
        ELSE IF video_preset_xml.kind = "raise" THEN [out |-> video_preset_xml, files |-> disk]
        ELSE IF sequence_key.kind = "raise" THEN [out |-> sequence_key, files |-> disk]
        ELSE IF version_key.kind = "raise" THEN [out |-> version_key, files |-> disk]
        ELSE LET xml4 == SplicedXml(video_preset_xml.value, resolved)
                 xml5 == Replace(xml4, <<"{","F","R","A","M","E","_","P","A","D","D","I","N","G","}">>, LStrip(sequence_key.value, "0"))
                 xml6 == Replace(xml5, <<"{","V","E","R","S","I","O","N","_","P","A","D","D","I","N","G","}">>, LStrip(version_key.value, "0"))
                 written == write_content_to_file(disk, xml6, "export_preset.xml")
             IN  [out |-> Return(written.path), files |-> written.files]

----------------------------------------------------------------------------
(* A handler of two presets and the export preset documents written for them *)

InitXml ==
    /\ pc = "ready"
    /\ plate_presets \in XmlPresetLists
    /\ _export_presets = BuildExportPresets(plate_presets, 1, <<>>)
    /\ app_templates \in AppTemplateChoices
    /\ files = EmptyDisk
    /\ returned = <<>>
    /\ call = NoCall
    /\ _raw_preset = None
    /\ first_quicktime = NoCall
    /\ shot_parent_entity_type = <<"S","e","q","u","e","n","c","e">>
    /\ template_def = None
    /\ flame_def = None
    /\ flame_def2 = None

GetXmlPath ==
    /\ pc = "ready"
    /\ \E n \in DOMAIN _export_presets, hook \in HookBehaviours :
         LET r == get_xml_path(_export_presets[n]._raw_preset, app_templates,
                               shot_parent_entity_type, hook, files)
         IN  /\ call' = [op |-> "get_xml_path", args |-> <<>>, self |-> n,
                         hook |-> hook, out |-> r.out]
             /\ files' = r.files
             /\ returned' = IF r.out.kind = "return"
                            THEN LET Other(c) == c.self # n
                                 IN  SelectSeq(returned, Other)
                                     \o <<[self |-> n, hook |-> hook, path |-> r.out.value]>>
                            ELSE returned
    /\ UNCHANGED <<pc, varsHandler, varsTranslate, varsPreset, app_templates>>

NextXml == GetXmlPath

SpecXml == InitXml /\ [][NextXml]_vars

----------------------------------------------------------------------------
(* Claims about the export preset document *)

\* The last call was get_xml_path and it returned.
XmlWritten == call.op = "get_xml_path" /\ call.out.kind = "return"

\* The content of <cache_location>/<instance_name>/export_preset.xml.
Document == ReadFile(files, FilePath("export_preset.xml"))

\* The render template keys of the preset the last call was made on.
CalledKeys == Templates[_export_presets[call.self]._raw_preset.template].keys

\* What the document holds between the scaffold runs open and close.
Between(doc, open, close) ==
    LET i == CHOOSE x \in 1..Len(doc) : doc[x] = open
        j == CHOOSE x \in 1..Len(doc) : doc[x] = close
    IN  SubSeq(doc, i + 1, j - 1)

\* t is spec without its leading zero characters.
IsWithoutLeadingZeros(spec, t) ==
    \E k \in 0..Len(spec) :
        /\ \A i \in 1..k : spec[i] = "0"
        /\ t = SubSeq(spec, k + 1, Len(spec))
        /\ t = <<>> \/ t[1] # "0"

\* C8: the frame padding written to the document is the SEQ key's format
\* spec without its leading zeros, the version padding the version key's:
\* "04" gives "4" and "0" gives the empty string.
C8_PaddingValues ==
    XmlWritten =>
        LET frame == Between(Document, ScaffoldFramePaddingOpen, ScaffoldFramePaddingClose)
            version == Between(Document, ScaffoldVersionPaddingOpen, ScaffoldVersionPaddingClose)
        IN  /\ IsWithoutLeadingZeros(CalledKeys.SEQ, frame)
            /\ IsWithoutLeadingZeros(CalledKeys.version, version)
            /\ CalledKeys.SEQ = <<"0","4">> => frame = <<"4">>
            /\ CalledKeys.version = <<"0">> => version = <<>>

C8_Witness ==
    /\ XmlWritten
    /\ CalledKeys.version = <<"0">>
    /\ Between(Document, ScaffoldVersionPaddingOpen, ScaffoldVersionPaddingClose) = <<>>
    /\ CalledKeys.SEQ = <<"0","0">>

C8_WitnessFour ==
    /\ XmlWritten
    /\ CalledKeys.SEQ = <<"0","4">>
    /\ Between(Document, ScaffoldFramePaddingOpen, ScaffoldFramePaddingClose) = <<"4">>

\* The scaffold with each placeholder replaced by exactly its own value.
ExpectedDocument ==
    LET raw == _export_presets[call.self]._raw_preset
        resolved == resolve_flame_templates(raw, app_templates, shot_parent_entity_type)
        video == execute_hook_method(call.hook, get_name(raw),
                                     CgiEscape(resolved.plate_template)).value
    IN  <<ScaffoldHead>> \o PresetVersion \o <<ScaffoldSequence>>
        \o video
        \o <<ScaffoldFramePaddingOpen>> \o LStrip(CalledKeys.SEQ, "0")
        \o <<ScaffoldFramePaddingClose>>
        \o CgiEscape(resolved.segment_clip_template)
        \o <<ScaffoldVersionPaddingOpen>> \o LStrip(CalledKeys.version, "0")
        \o <<ScaffoldVersionPaddingClose>>
        \o CgiEscape(resolved.batch_template)
        \o <<ScaffoldExportNamePattern>>
        \o CgiEscape(resolved.shot_clip_template)
        \o <<ScaffoldTail>>

\* C10: the document written is the scaffold with each placeholder replaced
\* by exactly its own value, whatever the values contain: the hook's fragment
\* verbatim, the escaped Flame templates, the stripped padding values.
C10_DocumentIsScaffoldWithValues ==
    XmlWritten => Document = ExpectedDocument

\* No value of the last call spells a placeholder of the scaffold.
NoPlaceholderInValues ==
    /\ call.hook = "name_pattern"
    /\ app_templates.segment_clip_template = <<"{","s","e","g","m","e","n","t","_","n","a","m","e","}",".","c","l","i","p">>

\* The document is as C10 says when no value spells a placeholder.
C10_HoldsWithoutPlaceholderSpelling ==
    (XmlWritten /\ NoPlaceholderInValues) => Document = ExpectedDocument

----------------------------------------------------------------------------
(* Claims about the file system *)

\* The placeholders of the scaffold.
Placeholders ==
    { <<"{","V","I","D","E","O","_","E","X","P","O","R","T","_","P","R","E","S","E","T","}">>, <<"{","F","R","A","M","E","_","P","A","D","D","I","N","G","}">>, <<"{","S","E","G","M","E","N","T","_","C","L","I","P","_","N","A","M","E","_","P","A","T","T","E","R","N","}">>,
      <<"{","V","E","R","S","I","O","N","_","P","A","D","D","I","N","G","}">>, <<"{","B","A","T","C","H","_","N","A","M","E","_","P","A","T","T","E","R","N","}">>, <<"{","S","H","O","T","_","C","L","I","P","_","N","A","M","E","_","P","A","T","T","E","R","N","}">> }

\* The last call was get_xml_path and it raised.
XmlFailed == call.op = "get_xml_path" /\ call.out.kind = "raise"

\* The error of the last call is the one its cause raised: the missing
\* template's AttributeError, the hook's TankError, or the KeyError of the
\* key the render template lacks.
ErrorIsTheCause ==
    LET out == call.out
        lacking == {"SEQ", "version"} \ DOMAIN CalledKeys
    IN  \/ /\ out = Raise("AttributeError", "definition")
           /\ \E t \in DOMAIN app_templates : app_templates[t] = NoneChars
        \/ /\ out = Raise("TankError", "settings_hook")
           /\ call.hook = "raise"
        \/ /\ out.exc = "KeyError"
           /\ out.arg \in lacking
           /\ out = Raise("KeyError", out.arg)

\* C11: a get_xml_path call that fails (a template to translate is missing,
\* the hook raises, the render template has no SEQ or no version key) hands
\* on the error of its cause and leaves every folder and every file as they
\* were before the call; the file system changes only in a call that
\* returns, and then export_preset.xml holds a document in which no
\* placeholder is left to substitute.
C11_FailureLeavesFilesAlone ==
    /\ [](XmlFailed => ErrorIsTheCause)
    /\ [][ call'.op = "get_xml_path" =>
             /\ call'.out.kind = "raise" => files' = files
             /\ files' # files =>
                  /\ call'.out.kind = "return"
                  /\ \A p \in Placeholders :
                        Find(ReadFile(files', call'.out.value), 1, p) = 0 ]_vars

\* A call failed on a missing key after an earlier call had written the
\* document, which is still there.
C11_Witness ==
    /\ XmlFailed
    /\ call.out.exc = "KeyError"
    /\ Document # NoFile
    /\ FilePath("export_preset.xml") \in DOMAIN files.file

\* The hook failed after an earlier call had written the document.
C11_WitnessHook ==
    /\ XmlFailed
    /\ call.out.exc = "TankError"
    /\ Document # NoFile

\* A template to translate is missing: nothing is ever written.
C11_WitnessTranslation ==
    /\ XmlFailed
    /\ call.out.exc = "AttributeError"
    /\ files = EmptyDisk

\* The document get_xml_path assembles for the call c.
DocumentOf(c) ==
    ReadFile(get_xml_path(_export_presets[c.self]._raw_preset, app_templates,
                          shot_parent_entity_type, c.hook, EmptyDisk).files,
             FilePath("export_preset.xml"))

\* C12: the presets of one handler share one file: every get_xml_path call
\* that returned gave the path <cache_location>/<instance_name>/
\* export_preset.xml, the file holds the document of the call that returned
\* last, and the path returned earlier for another preset no longer holds
\* that preset's document.
C12_OneSharedFile ==
    /\ XmlWritten => call.out.value = FilePath("export_preset.xml")
    /\ \A i \in DOMAIN returned : returned[i].path = FilePath("export_preset.xml")
    /\ returned # <<>> =>
          ReadFile(files, returned[Len(returned)].path) = DocumentOf(returned[Len(returned)])
    /\ \A i \in 1..(Len(returned) - 1) :
          ReadFile(files, returned[i].path) # DocumentOf(returned[i])

\* get_xml_path returned for one preset and then, last, for another.
C12_Witness ==
    /\ XmlWritten
    /\ Len(returned) = 2
    /\ returned[1].self # call.self
    /\ returned[2].self = call.self
    /\ Document = DocumentOf(returned[2])

====
